---- MODULE Spec2Model ----
(***************************************************************************)
(* State-machine model of the Micromamba installer (src/src/main.rs).      *)
(*                                                                         *)
(* One run of main is modelled: the OS match, the four stdin prompts of  *)
(* MicromambaConfig::new, download_micromamba_exe (determine_os_arch,      *)
(* FileHandler::new, the curl transfer with the FileHandler::write         *)
(* callback, the response-code check) and init_micromamba.                 *)
(*                                                                         *)
(* Representation.  A Rust String is a sequence of symbols (TLA+ strings); *)
(* Flat joins the symbols into one TLA+ string.  The separator "/" and the *)
(* whitespace characters are always symbols of their own, so trimming and  *)
(* path parsing are computed on the symbols.  A panic moves the program    *)
(* counter to "panicked"; unwinding drops the locals of the frames left.   *)
(***************************************************************************)
EXTENDS Integers, Sequences, FiniteSets, TLC

VARIABLES
    OS,             \* std::env::consts::OS of the build
    ARCH,           \* std::env::consts::ARCH of the build
    fs0,            \* the filesystem as the run found it (never changes)
    pc,             \* position of the single thread
    os,             \* main's _os : Option<OperatingSystem>
    l_root_prefix,  \* MicromambaConfig::new local root_prefix
    l_init_shell,   \* MicromambaConfig::new local init_shell
    l_shell,        \* MicromambaConfig::new local shell : Option<String>
    l_exe_path,     \* MicromambaConfig::new local exe_path
    config,         \* main's _config : Option<MicromambaConfig>
    url,            \* download_micromamba_exe local url : Option<String>
    easy,           \* the Easy2 handle's options: Option<[get, follow_location, url]>
    dirs,           \* directories that exist
    files,          \* path -> [content, exec] of the regular files that exist
    handles,        \* open handles on the destination file
    requests,       \* URLs of the transfers started (easy.perform)
    blocks,         \* blocks for which FileHandler::write returned Ok
    last_ret,       \* value returned by the last FileHandler::write
    response_code,  \* Option<u32>: easy.response_code()
    result,         \* Option<Result<(), String>> of download_micromamba_exe
    spawned,        \* child processes started: [program, args]
    child_status,   \* Option<exit status> of the child
    panic,          \* Option<panic message>
    trace           \* history of the steps taken

envVars == <<OS, ARCH, fs0>>
newVars == <<l_root_prefix, l_init_shell, l_shell, l_exe_path>>
fsVars == <<dirs, files>>
xferVars == <<requests, blocks, last_ret, response_code>>
procVars == <<spawned, child_status>>
vars == <<envVars, pc, os, newVars, config, url, easy, fsVars, handles, xferVars,
          result, procVars, panic, trace>>

-----------------------------------------------------------------------------
(* Bounds of the model *)

\* at most this many blocks are delivered to the write callback per transfer
MaxChunks == 2

-----------------------------------------------------------------------------
(* Values *)

None == <<>>
Some(x) == <<x>>
IsSome(o) == o # <<>>
Unwrap(o) == o[1]

RECURSIVE Flat(_)
Flat(s) == IF s = <<>> THEN "" ELSE Head(s) \o Flat(Tail(s))

RECURSIVE Concat(_)
Concat(bs) == IF bs = <<>> THEN <<>> ELSE Head(bs) \o Concat(Tail(bs))

Whitespace == {" ", "\t", "\n"}

RECURSIVE trim_start(_)
trim_start(s) ==
    IF s # <<>> /\ Head(s) \in Whitespace THEN trim_start(Tail(s)) ELSE s

RECURSIVE trim_end(_)
trim_end(s) ==
    IF s # <<>> /\ s[Len(s)] \in Whitespace
    THEN trim_end(SubSeq(s, 1, Len(s) - 1))
    ELSE s

trim(s) == trim_end(trim_start(s))

-----------------------------------------------------------------------------
(* Paths and the filesystem *)

Path_new(s) ==
    [root |-> s # <<>> /\ Head(s) = "/",
     comps |-> SelectSeq(s, LAMBDA c : c # "/")]

Path_parent(p) ==
    IF p.comps = <<>>
    THEN None
    ELSE Some([root |-> p.root, comps |-> SubSeq(p.comps, 1, Len(p.comps) - 1)])

Prefixes(p, k) ==
    {[root |-> p.root, comps |-> SubSeq(p.comps, 1, i)] : i \in 1..k}

is_dir(p, ds) == (p.root /\ p.comps = <<>>) \/ p \in ds

\* a directory in which an entry can be made: the root, the working directory
\* (the empty relative path) or an existing directory
Usable(p, ds) == p.comps = <<>> \/ p \in ds

PutFile(fl, p, f) ==
    [q \in (DOMAIN fl) \cup {p} |-> IF q = p THEN f ELSE fl[q]]

-----------------------------------------------------------------------------
(* The environment the run can find: build targets, stdin lines, filesystems *)

OSValues == {"windows", "linux", "macos", "freebsd", "Linux"}
ARCHValues == {"x86_64", "arm", "aarch64"}

RootPrefixLines == {<<"\n">>, <<" ", "/", "opt", "/", "mm", "\n">>}

InitShellLines ==
    {<<>>, <<"\n">>, <<"y", "\n">>, <<"Y", "\n">>, <<"yes", "\n">>,
     <<"n", "\n">>, <<"N", "\n">>, <<" ", "no", " ", "\n">>,
     <<"maybe", "\n">>, <<"YES", "\n">>}

ShellLines == {<<" ", "bash", "\n">>, <<"\n">>}

BinPathLines ==
    {<<"\n">>,
     <<"/", "opt", "/", "mm", "/", "micromamba", "\n">>,
     <<"micromamba", "\n">>,
     <<"/", "\n">>}

Chunks == {<<1>>, <<2, 3>>}

StatusCodes == {200, 204, 302, 404, 500}

ExitStatuses == {0, 1}

UnixDefault == Path_new(<<"~", "/", ".local", "/", "bin", "/", "micromamba">>)
OptPath == Path_new(<<"/", "opt", "/", "mm", "/", "micromamba">>)
CwdPath == Path_new(<<"micromamba">>)

NoFiles == [q \in {} |-> 0]

\* filesystems a run can start in: every file lies in an existing directory
InitialFS ==
    { [dirs |-> {}, files |-> NoFiles],
      [dirs |-> Prefixes(UnixDefault, 3),
       files |-> PutFile(NoFiles, UnixDefault, [content |-> <<9>>, exec |-> TRUE])],
      [dirs |-> Prefixes(UnixDefault, 3),
       files |-> PutFile(NoFiles, UnixDefault, [content |-> <<9, 9>>, exec |-> FALSE])],
      [dirs |-> Prefixes(OptPath, 1), files |-> NoFiles],
      [dirs |-> {},
       files |-> PutFile(NoFiles, CwdPath, [content |-> <<9>>, exec |-> TRUE])] }

-----------------------------------------------------------------------------
(* Initial state: main is about to run *)

Init ==
    /\ OS \in OSValues
    /\ ARCH \in ARCHValues
    /\ fs0 \in InitialFS
    /\ dirs = fs0.dirs
    /\ files = fs0.files
    /\ pc = "main"
    /\ os = None
    /\ l_root_prefix = <<>>
    /\ l_init_shell = FALSE
    /\ l_shell = None
    /\ l_exe_path = <<>>
    /\ config = None
    /\ url = None
    /\ easy = None
    /\ handles = {}
    /\ requests = <<>>
    /\ blocks = <<>>
    /\ last_ret = 0
    /\ response_code = None
    /\ result = None
    /\ spawned = <<>>
    /\ child_status = None
    /\ panic = None
    /\ trace = <<>>

\* a panic: nothing after it runs; unwinding drops every live local, so the
\* handles the frames own are closed
Panicked(msg) ==
    /\ pc' = "panicked"
    /\ panic' = Some(msg)
    /\ handles' = {}
    /\ trace' = Append(trace, "panic")

Step(next, event) ==
    /\ pc' = next
    /\ trace' = Append(trace, event)
    /\ UNCHANGED panic

-----------------------------------------------------------------------------
(* main: the OS match *)

\* the match on OS: None stands for the arm that panics
match_os(o) ==
    CASE o = "windows" -> Some("Windows")
      [] o = "linux" -> Some("Linux")
      [] o = "macos" -> Some("Macos")
      [] OTHER -> None

main_match_os ==
    /\ pc = "main"
    /\ IF IsSome(match_os(OS))
       THEN /\ os' = match_os(OS)
            /\ Step("get_root_prefix", "os")
            /\ UNCHANGED handles
       ELSE /\ Panicked("Unsupported operating system: " \o OS)
            /\ UNCHANGED os
    /\ UNCHANGED <<envVars, newVars, config, url, easy, fsVars, xferVars, result,
                   procVars>>

-----------------------------------------------------------------------------
(* MicromambaConfig *)

DefaultRootPrefix == <<"~", "/", "micromamba", "/">>

\* the prompt functions keep the default when the trimmed line is empty
answer_or(default, line) ==
    IF trim(line) # <<>> THEN trim(line) ELSE default

get_root_prefix ==
    /\ pc = "get_root_prefix"
    /\ \E line \in RootPrefixLines :
          l_root_prefix' = answer_or(DefaultRootPrefix, line)
    /\ Step("init_shell", "ask_root_prefix")
    /\ UNCHANGED <<envVars, os, l_init_shell, l_shell, l_exe_path, config, url, easy,
                   fsVars, handles, xferVars, result, procVars>>

YesAnswers == {"", "y", "Y", "yes"}
NoAnswers == {"n", "N", "no"}

init_shell ==
    /\ pc = "init_shell"
    /\ \E answer \in InitShellLines :
          LET a == Flat(trim(answer))
          IN  IF a \in YesAnswers \cup NoAnswers
              THEN /\ l_init_shell' = (a \in YesAnswers)
                   /\ Step("shell", "ask_init_shell")
                   /\ UNCHANGED handles
              ELSE /\ Panicked("Invalid answer: " \o Flat(answer))
                   /\ UNCHANGED l_init_shell
    /\ UNCHANGED <<envVars, os, l_root_prefix, l_shell, l_exe_path, config, url, easy,
                   fsVars, xferVars, result, procVars>>

\* faulty variant: the shell is asked for whatever the answer was
shell_asked_always(init) == TRUE

\* if init_shell { Some(ask_for_shell()) } else { None }
shell_asked(init) == init

ask_for_shell ==
    /\ pc = "shell"
    /\ shell_asked(l_init_shell)
    /\ \E line \in ShellLines : l_shell' = Some(trim(line))
    /\ Step("get_bin_path", "ask_for_shell")
    /\ UNCHANGED <<envVars, os, l_root_prefix, l_init_shell, l_exe_path, config,
                   url, easy, fsVars, handles, xferVars, result, procVars>>

no_shell ==
    /\ pc = "shell"
    /\ ~shell_asked(l_init_shell)
    /\ l_shell' = None
    /\ Step("get_bin_path", "no_shell")
    /\ UNCHANGED <<envVars, os, l_root_prefix, l_init_shell, l_exe_path, config,
                   url, easy, fsVars, handles, xferVars, result, procVars>>

default_bin_path(o) ==
    IF o = "Windows"
    THEN <<"~", "/", "micromamba", "/", "micromamba.exe">>
    ELSE <<"~", "/", ".local", "/", "bin", "/", "micromamba">>

get_bin_path ==
    /\ pc = "get_bin_path"
    /\ \E line \in BinPathLines :
          l_exe_path' = answer_or(default_bin_path(Unwrap(os)), line)
    /\ Step("new_config", "ask_bin_path")
    /\ UNCHANGED <<envVars, os, l_root_prefix, l_init_shell, l_shell, config, url, easy,
                   fsVars, handles, xferVars, result, procVars>>

MicromambaConfig(exe, init, root, sh) ==
    [exe_path |-> exe, init_shell |-> init, root_prefix |-> root, shell |-> sh]

MicromambaConfig_new ==
    /\ pc = "new_config"
    /\ config' = Some(MicromambaConfig(l_exe_path, l_init_shell, l_root_prefix,
                                       l_shell))
    /\ Step("determine_os_arch", "config")
    /\ UNCHANGED <<envVars, os, newVars, url, easy, fsVars, handles, xferVars, result,
                   procVars>>

-----------------------------------------------------------------------------
(* download_micromamba_exe: the URL *)

\* faulty variant: Rust's names of the systems instead of Micromamba's
as_string_rust_names(o) ==
    CASE o = "Windows" -> <<"windows">>
      [] o = "Macos" -> <<"macos">>
      [] o = "Linux" -> <<"linux">>

as_string(o) ==
    CASE o = "Windows" -> <<"win">>
      [] o = "Macos" -> <<"osx">>
      [] o = "Linux" -> <<"linux">>

\* faulty variant: an unknown architecture falls through with its own name
arch_token_fallback(a) ==
    CASE a = "x86_64" -> Some(<<"64">>)
      [] a = "arm" -> Some(<<"arm64">>)
      [] OTHER -> Some(<<a>>)

\* the match on ARCH: None stands for the arm that panics
arch_token(a) ==
    CASE a = "x86_64" -> Some(<<"64">>)
      [] a = "arm" -> Some(<<"arm64">>)
      [] OTHER -> None

format_url(os_arch) ==
    <<"https://github.com/mamba-org/micromamba-releases/releases/latest/download/micromamba-">>
        \o os_arch

\* determine_os_arch, then the format! of the URL
determine_os_arch ==
    /\ pc = "determine_os_arch"
    /\ IF IsSome(arch_token(ARCH))
       THEN /\ url' = Some(format_url(as_string(Unwrap(os)) \o <<"-">>
                                         \o Unwrap(arch_token(ARCH))))
            /\ Step("parent", "url")
            /\ UNCHANGED handles
       ELSE /\ Panicked("Unsupported architecture \"" \o ARCH \o "\"")
            /\ UNCHANGED url
    /\ UNCHANGED <<envVars, os, newVars, config, easy, fsVars, xferVars, result,
                   procVars>>

-----------------------------------------------------------------------------
(* FileHandler::new *)

ExePath == Path_new(Unwrap(config).exe_path)
ExeParent == Unwrap(Path_parent(ExePath))

new_parent ==
    /\ pc = "parent"
    /\ IF IsSome(Path_parent(ExePath))
       THEN Step("create_dir_all", "parent") /\ UNCHANGED handles
       ELSE Panicked("called Option::unwrap() on a None value")
    /\ UNCHANGED <<envVars, os, newVars, config, url, easy, fsVars, xferVars,
                   result, procVars>>

\* if !parent.is_dir() { create_dir_all(parent).unwrap() }, the parent there
new_parent_is_dir ==
    /\ pc = "create_dir_all"
    /\ is_dir(ExeParent, dirs)
    /\ Step("file_create", "is_dir")
    /\ UNCHANGED <<envVars, os, newVars, config, url, easy, fsVars, handles,
                   xferVars, result, procVars>>

\* create_dir_all makes every missing ancestor; on the empty path it returns Ok
create_dir_all(ds, parent) == ds \cup Prefixes(parent, Len(parent.comps))

new_create_dir_all ==
    /\ pc = "create_dir_all"
    /\ ~is_dir(ExeParent, dirs)
    /\ dirs' = create_dir_all(dirs, ExeParent)
    /\ Step("file_create", "create_dir_all")
    /\ UNCHANGED <<envVars, os, newVars, config, url, easy, files, handles,
                   xferVars, result, procVars>>

\* create_dir_all fails part of the way (permissions, a file in the way)
new_create_dir_all_fails ==
    /\ pc = "create_dir_all"
    /\ ~is_dir(ExeParent, dirs)
    /\ ExeParent.comps # <<>>
    /\ \E k \in 0..(Len(ExeParent.comps) - 1) :
          dirs' = dirs \cup Prefixes(ExeParent, k)
    /\ Panicked("create_dir_all: io error")
    /\ UNCHANGED <<envVars, os, newVars, config, url, easy, files, xferVars,
                   result, procVars>>

\* the mode File::create gives a new file has no execute bit (0o666 & !umask);
\* Windows has no execute permission, any file can be given to CreateProcess
created_exec(o) == o = "Windows"

\* faulty variant: opened with create(true) alone, an existing file is kept
File_create_keeps(fl, p, o) ==
    IF p \in DOMAIN fl
    THEN fl
    ELSE PutFile(fl, p, [content |-> <<>>, exec |-> created_exec(o)])

\* File::create: create, or truncate and keep the mode
File_create(fl, p, o) ==
    PutFile(fl, p, [content |-> <<>>,
                    exec |-> IF p \in DOMAIN fl THEN fl[p].exec
                             ELSE created_exec(o)])

new_file_create ==
    /\ pc = "file_create"
    /\ Usable(ExeParent, dirs)
    /\ ExePath \notin dirs
    /\ files' = File_create(files, ExePath, Unwrap(os))
    /\ handles' = handles \cup {"created"}
    /\ Step("drop_created", "file_create")
    /\ UNCHANGED <<envVars, os, newVars, config, url, easy, dirs, xferVars,
                   result, procVars>>

new_file_create_fails ==
    /\ pc = "file_create"
    /\ Panicked("File::create: io error")
    /\ UNCHANGED <<envVars, os, newVars, config, url, easy, fsVars, xferVars,
                   result, procVars>>

\* the File that File::create returned is a temporary: dropped with the statement
drop_temporary(hs) == hs \ {"created"}

new_drop_created ==
    /\ pc = "drop_created"
    /\ handles' = drop_temporary(handles)
    /\ Step("open_append", "drop_created")
    /\ UNCHANGED <<envVars, os, newVars, config, url, easy, fsVars, xferVars,
                   result, procVars>>

new_open_append ==
    /\ pc = "open_append"
    /\ ExePath \in DOMAIN files
    /\ handles' = handles \cup {"append"}
    /\ Step("easy_setup", "open_append")
    /\ UNCHANGED <<envVars, os, newVars, config, url, easy, fsVars, xferVars,
                   result, procVars>>

new_open_append_fails ==
    /\ pc = "open_append"
    /\ Panicked("File::options().open: io error")
    /\ UNCHANGED <<envVars, os, newVars, config, url, easy, fsVars, xferVars,
                   result, procVars>>

-----------------------------------------------------------------------------
(* download_micromamba_exe: the transfer *)

easy_setup ==
    /\ pc = "easy_setup"
    /\ easy' = Some([get |-> TRUE, follow_location |-> TRUE, url |-> Unwrap(url)])
    /\ Step("perform", "easy_setup")
    /\ UNCHANGED <<envVars, os, newVars, config, url, fsVars, handles, xferVars,
                   result, procVars>>

\* easy.perform(): the request goes out
perform ==
    /\ pc = "perform"
    /\ requests' = Append(requests, Unwrap(easy).url)
    /\ Step("transfer", "request")
    /\ UNCHANGED <<envVars, os, newVars, config, url, easy, fsVars, handles,
                   blocks, last_ret, response_code, result, procVars>>

\* faulty variant: one write call, which the system may cut short
write_once(content, data) == content \o SubSeq(data, 1, 1)

\* write_all on a file opened with append(true): the whole block, at the end
write_all(content, data) == content \o data

WriteTo(fl, p, bytes) ==
    [fl EXCEPT ![p].content = write_all(fl[p].content, bytes)]

\* Handler::write for FileHandler, called by the transfer for each block
FileHandler_write ==
    /\ pc = "transfer"
    /\ Len(blocks) < MaxChunks
    /\ "append" \in handles
    /\ \E data \in Chunks :
          /\ files' = WriteTo(files, ExePath, data)
          /\ blocks' = Append(blocks, data)
          /\ last_ret' = Len(data)
    /\ Step("transfer", "write")
    /\ UNCHANGED <<envVars, os, newVars, config, url, easy, dirs, handles,
                   requests, response_code, result, procVars>>

\* write_all fails after writing part of the block: the unwrap panics, the
\* transfer is aborted and the panic resumes when perform returns
FileHandler_write_fails ==
    /\ pc = "transfer"
    /\ "append" \in handles
    /\ \E data \in Chunks :
          \E k \in 0..(Len(data) - 1) :
             files' = WriteTo(files, ExePath, SubSeq(data, 1, k))
    /\ Panicked("write_all: io error")
    /\ UNCHANGED <<envVars, os, newVars, config, url, easy, dirs, xferVars,
                   result, procVars>>

\* easy.perform() returns Err (connection, DNS, TLS, interrupted stream)
perform_fails ==
    /\ pc = "transfer"
    /\ Panicked("perform: transport error")
    /\ UNCHANGED <<envVars, os, newVars, config, url, easy, fsVars, xferVars,
                   result, procVars>>

\* easy.perform() returns Ok: the last response's status is known
perform_done ==
    /\ pc = "transfer"
    /\ \E code \in StatusCodes : response_code' = Some(code)
    /\ Step("response_code", "status")
    /\ UNCHANGED <<envVars, os, newVars, config, url, easy, fsVars, handles,
                   requests, blocks, last_ret, result, procVars>>

Ok == [ok |-> TRUE, err |-> ""]
Err(msg) == [ok |-> FALSE, err |-> msg]

\* faulty variant: every 2xx status is taken for a success
match_response_code_2xx(code) ==
    IF code \in 200..299 THEN Ok ELSE Err("Got response code " \o ToString(code))

match_response_code(code) ==
    IF code = 200 THEN Ok ELSE Err("Got response code " \o ToString(code))

\* faulty variant: the handle outlives the function
drop_easy_leaks(hs) == hs

\* the function returns: easy, and the FileHandler in it, are dropped
drop_easy(hs) == hs \ {"append"}

check_response_code ==
    /\ pc = "response_code"
    /\ result' = Some(match_response_code(Unwrap(response_code)))
    /\ handles' = drop_easy(handles)
    /\ Step("unwrap", "return")
    /\ UNCHANGED <<envVars, os, newVars, config, url, easy, fsVars, xferVars,
                   procVars>>

-----------------------------------------------------------------------------
(* main after the download, init_micromamba *)

\* faulty variant: the Result is discarded
unwrap_ignores(r) == TRUE

\* download_micromamba_exe(..).unwrap()
unwrap_ok(r) == r.ok

main_unwrap ==
    /\ pc = "unwrap"
    /\ IF unwrap_ok(Unwrap(result))
       THEN Step("branch", "download_ok") /\ UNCHANGED handles
       ELSE Panicked("called Result::unwrap() on an Err value: "
                        \o Unwrap(result).err)
    /\ UNCHANGED <<envVars, os, newVars, config, url, easy, fsVars, xferVars,
                   result, procVars>>

\* if _config.init_shell { init_micromamba(&_config) }
main_branch ==
    /\ pc = "branch"
    /\ IF Unwrap(config).init_shell
       THEN Step("init_micromamba", "init_micromamba")
       ELSE Step("done", "exit")
    /\ UNCHANGED <<envVars, os, newVars, config, url, easy, fsVars, handles,
                   xferVars, result, procVars>>

init_match_shell ==
    /\ pc = "init_micromamba"
    /\ IF IsSome(Unwrap(config).shell)
       THEN Step("status", "command") /\ UNCHANGED handles
       ELSE Panicked("Tried shell initialization without a shell.")
    /\ UNCHANGED <<envVars, os, newVars, config, url, easy, fsVars, xferVars,
                   result, procVars>>

\* faulty variant: the two values change places
init_args_swapped(c) ==
    <<"shell", "init", "--prefix", Flat(Unwrap(c.shell)),
      "--shell", Flat(c.root_prefix)>>

init_args(c) ==
    <<"shell", "init", "--prefix", Flat(c.root_prefix),
      "--shell", Flat(Unwrap(c.shell))>>

Command(c) == [program |-> Flat(c.exe_path), args |-> init_args(c)]

\* a program name with no separator is searched on PATH; a path is run as it
\* is, and must be an existing file with execute permission
CanExecute(exe, fl) ==
    \/ "/" \notin {exe[i] : i \in 1..Len(exe)}
    \/ /\ Path_new(exe) \in DOMAIN fl
       /\ fl[Path_new(exe)].exec

\* micromamba.status(): spawn the child and wait for it
command_status ==
    /\ pc = "status"
    /\ CanExecute(Unwrap(config).exe_path, files)
    /\ spawned' = Append(spawned, Command(Unwrap(config)))
    /\ \E st \in ExitStatuses : child_status' = Some(st)
    /\ Step("done", "spawn")
    /\ UNCHANGED <<envVars, os, newVars, config, url, easy, fsVars, handles,
                   xferVars, result>>

\* the spawn fails (not found, permission denied, not a program)
command_status_fails ==
    /\ pc = "status"
    /\ Panicked("Command::status: io error")
    /\ UNCHANGED <<envVars, os, newVars, config, url, easy, fsVars, xferVars,
                   result, procVars>>

-----------------------------------------------------------------------------

Next ==
    \/ main_match_os
    \/ get_root_prefix
    \/ init_shell
    \/ ask_for_shell
    \/ no_shell
    \/ get_bin_path
    \/ MicromambaConfig_new
    \/ determine_os_arch
    \/ new_parent
    \/ new_parent_is_dir
    \/ new_create_dir_all
    \/ new_create_dir_all_fails
    \/ new_file_create
    \/ new_file_create_fails
    \/ new_drop_created
    \/ new_open_append
    \/ new_open_append_fails
    \/ easy_setup
    \/ perform
    \/ FileHandler_write
    \/ FileHandler_write_fails
    \/ perform_fails
    \/ perform_done
    \/ check_response_code
    \/ main_unwrap
    \/ main_branch
    \/ init_match_shell
    \/ command_status
    \/ command_status_fails

Spec == Init /\ [][Next]_vars

-----------------------------------------------------------------------------
(* Properties *)

Returned == IsSome(result)
DownloadOk == Returned /\ Unwrap(result).ok
DownloadErr == Returned /\ ~Unwrap(result).ok
Happened(event) == \E i \in 1..Len(trace) : trace[i] = event
Count(event) == Cardinality({i \in 1..Len(trace) : trace[i] = event})

\* nothing was sent and the filesystem is as the run found it
NoActivity ==
    /\ requests = <<>>
    /\ dirs = fs0.dirs
    /\ files = fs0.files
    /\ handles = {}

\* C1: download_micromamba_exe returns Ok exactly when the final status is
\* 200; for any other status it returns the error that carries that status,
\* and the destination file is still there with exactly the bytes streamed
\* into it.
C1_StatusDecidesOutcome ==
    Returned =>
        /\ IsSome(response_code)
        /\ Unwrap(result).ok <=> (Unwrap(response_code) = 200)
        /\ ~Unwrap(result).ok =>
              /\ Unwrap(result).err
                    = "Got response code " \o ToString(Unwrap(response_code))
              /\ ExePath \in DOMAIN files
              /\ files[ExePath].content = Concat(blocks)

C1_Witness ==
    /\ DownloadErr
    /\ Unwrap(response_code) = 404
    /\ Len(blocks) = 2
    /\ files[ExePath].content = <<1, 2, 3>>

\* C2: an error at any stage ends the run: a panic is the last step taken,
\* after a download that returned an error only the panic of the unwrap
\* follows, and a child process is spawned only after a download that
\* returned Ok.
C2_ErrorsAbortPipeline ==
    /\ \A i \in 1..Len(trace) : trace[i] = "panic" => i = Len(trace)
    /\ IsSome(panic) <=> pc = "panicked"
    /\ IsSome(panic) => Happened("panic")
    /\ DownloadErr => /\ pc \in {"unwrap", "panicked"}
                      /\ trace[Len(trace)] \in {"return", "panic"}
    /\ (spawned # <<>> \/ Happened("spawn") \/ Happened("command")) => DownloadOk
    /\ ~Returned => spawned = <<>>

C2_Witness ==
    /\ pc = "panicked"
    /\ DownloadErr
    /\ Unwrap(config).init_shell
    /\ Unwrap(response_code) = 500
    /\ spawned = <<>>

\* C3: with an OS outside {windows, linux, macos} the run panics with the
\* unsupported operating system message at the match; with an architecture
\* outside {x86_64, arm} the run never gets past determine_os_arch, where it
\* panics with the unsupported architecture message; in both cases no request
\* has been sent and no directory or file has been created or truncated.
C3_UnsupportedIsRejectedEarly ==
    /\ (OS \notin {"windows", "linux", "macos"} /\ pc # "main") =>
          /\ pc = "panicked"
          /\ panic = Some("Unsupported operating system: " \o OS)
          /\ NoActivity
    /\ ARCH \notin {"x86_64", "arm"} =>
          /\ NoActivity
          /\ url = None
          /\ (IsSome(config) /\ pc # "determine_os_arch") =>
                /\ pc = "panicked"
                /\ panic = Some("Unsupported architecture \"" \o ARCH \o "\"")

C3_Witness ==
    /\ OS = "linux"
    /\ ARCH = "aarch64"
    /\ IsSome(config)
    /\ pc = "panicked"
    /\ fs0.dirs = {}

C5_ExecutableAfterSuccess ==
    DownloadOk => /\ ExePath \in DOMAIN files
                  /\ files[ExePath].exec

\* C6: every configuration built has a shell exactly when init_shell is
\* true; ask_for_shell is called once when the answer was true and never when
\* it was false; the configuration never changes once built; init_micromamba
\* never finds the shell absent.
C6_ShellIffInitShell ==
    /\ [](/\ IsSome(config) =>
                /\ IsSome(Unwrap(config).shell) <=> Unwrap(config).init_shell
                /\ Count("ask_for_shell") = IF Unwrap(config).init_shell THEN 1 ELSE 0
                /\ Count("no_shell") = IF Unwrap(config).init_shell THEN 0 ELSE 1
          /\ panic # Some("Tried shell initialization without a shell.")
          /\ pc = "status" => IsSome(Unwrap(config).shell))
    /\ [][IsSome(config) => config' = config]_vars

C6_Witness ==
    /\ pc = "status"
    /\ Unwrap(config).init_shell
    /\ Unwrap(config).shell = Some(<<"bash">>)
    /\ Count("ask_for_shell") = 1

\* C7: when FileHandler::new has returned, every ancestor directory of the
\* destination exists and the destination exists and is empty, whatever it
\* held before, and this is so before the request is sent and before the
\* first block is appended; when creating the directories or the file fails
\* the run panics with no request sent.
C7_EmptyFileBeforeTransfer ==
    /\ (pc \in {"easy_setup", "perform", "transfer"} /\ blocks = <<>>) =>
          /\ Prefixes(ExeParent, Len(ExeParent.comps)) \subseteq dirs
          /\ ExePath \in DOMAIN files
          /\ files[ExePath].content = <<>>
    /\ requests # <<>> => Happened("file_create") /\ Happened("open_append")
    /\ panic \in {Some("called Option::unwrap() on a None value"),
                  Some("create_dir_all: io error"),
                  Some("File::create: io error"),
                  Some("File::options().open: io error")} => requests = <<>>

C7_Witness ==
    /\ pc = "perform"
    /\ requests = <<>>
    /\ fs0.dirs = {}
    /\ Len(ExeParent.comps) = 3
    /\ files[ExePath].content = <<>>

\* C8: the destination holds exactly the blocks passed to write, in call
\* order, whatever it held before it was opened; a write that returns gives
\* the length of its block, and a write that fails ends the run.
C8_FileIsConcatenationOfBlocks ==
    /\ (requests # <<>> /\ panic # Some("write_all: io error")) =>
          /\ ExePath \in DOMAIN files
          /\ files[ExePath].content = Concat(blocks)
    /\ blocks # <<>> => last_ret = Len(blocks[Len(blocks)])
    /\ Count("write") = Len(blocks)
    /\ panic = Some("write_all: io error") =>
          /\ pc = "panicked"
          /\ ~Returned
          /\ response_code = None

C8_Witness ==
    /\ pc = "done"
    /\ blocks = <<(<<2, 3>>), (<<1>>)>>
    /\ files[ExePath].content = <<2, 3, 1>>
    /\ ExePath \in DOMAIN fs0.files
    /\ fs0.files[ExePath].content = <<9, 9>>

\* C9: at most one handle on the destination is open at any time, and none
\* is open once download_micromamba_exe has returned or the run has
\* panicked; none is open when the child process is spawned.
C9_HandleReleased ==
    /\ Cardinality(handles) <= 1
    /\ Returned => handles = {}
    /\ pc = "panicked" => handles = {}
    /\ (pc \in {"status", "done"} \/ spawned # <<>>) => handles = {}

C9_Witness ==
    /\ spawned # <<>>
    /\ blocks # <<>>
    /\ Happened("open_append")
    /\ handles = {}

\* C10: for a supported OS and architecture the URL built, and the URL of
\* the one request sent, is the base URL, "-", the platform token
\* (win, osx, linux), "-", the architecture token (64, arm64); no run sends
\* more than one request and a run whose download returns has sent one.
C10_UrlAndSingleRequest ==
    LET base == "https://github.com/mamba-org/micromamba-releases/releases/latest/download/micromamba"
        platform == [o \in {"windows", "macos", "linux"} |->
                        CASE o = "windows" -> "win"
                          [] o = "macos" -> "osx"
                          [] o = "linux" -> "linux"]
        arch == [a \in {"x86_64", "arm"} |->
                    IF a = "x86_64" THEN "64" ELSE "arm64"]
    IN  /\ Len(requests) <= 1
        /\ Returned => Len(requests) = 1
        /\ IsSome(url) =>
              /\ OS \in DOMAIN platform
              /\ ARCH \in DOMAIN arch
              /\ Flat(Unwrap(url)) = base \o "-" \o platform[OS] \o "-" \o arch[ARCH]
        /\ requests # <<>> => requests[1] = Unwrap(url)
        /\ (OS \in DOMAIN platform /\ ARCH \in DOMAIN arch
                /\ IsSome(config) /\ pc \notin {"determine_os_arch"})
              => IsSome(url)

C10_Witness ==
    /\ OS = "macos"
    /\ ARCH = "arm"
    /\ Len(requests) = 1
    /\ Flat(requests[1])
         = "https://github.com/mamba-org/micromamba-releases/releases/latest/download/micromamba-osx-arm64"

====
